---- MODULE Spec2Model ----
(***************************************************************************)
(* site-404-comparitor (src/site_404_comparitor/main.py).                  *)
(*                                                                         *)
(* Text is modelled by its '/'-separated components: the string "/a/b/" is *)
(* the sequence <<"", "a", "b", "">>, the empty string is <<"">>.  furl's   *)
(* Path is the record [isabsolute, segments], pathlib's PurePosixPath is   *)
(* the record [abs, parts].  A cache file name is the sha256 of the URL's  *)
(* text; the hash is taken to be injective, so the text itself is the key. *)
(***************************************************************************)
EXTENDS Naturals, Integers, Sequences, FiniteSets, TLC

\* ------------------------------------------------------------------------
\* Bounds of the model
\* ------------------------------------------------------------------------
MaxBody == 2
MaxHrefLen == 2
MaxCalls == 4

\* ------------------------------------------------------------------------
\* Small helpers on sequences
\* ------------------------------------------------------------------------
\* The element of a one-element set; {F(x) : x \in {e}} names the value of e
\* once, as a local variable of the code does.
Only(S) == CHOOSE x \in S : TRUE

Last(s) == s[Len(s)]

Front(s) == SubSeq(s, 1, Len(s) - 1)

Range(s) == {s[i] : i \in 1..Len(s)}

SeqsUpTo(S, n) == UNION {[1..k -> S] : k \in 0..n}

\* ------------------------------------------------------------------------
\* furl.Path (library behaviour behind main.py:60,65,67)
\* ------------------------------------------------------------------------
EmptyStr == <<"">>

\* str(furl.Path): '/'.join(segments), with a leading '' when absolute.
FurlPathStr(p) ==
    LET s == IF p.isabsolute
             THEN (IF p.segments = <<>> THEN <<"", "">> ELSE <<"">> \o p.segments)
             ELSE p.segments
    IN  IF s = <<>> THEN EmptyStr ELSE s

\* furl.Path.load(str): split on '/', absolute iff the first component is ''.
FurlPathLoad(s) ==
    IF s = EmptyStr
    THEN [isabsolute |-> FALSE, segments |-> <<>>]
    ELSE IF s[1] = ""
         THEN [isabsolute |-> TRUE,
               segments |-> IF Len(s) > 1 THEN Tail(s) ELSE s]
         ELSE [isabsolute |-> FALSE, segments |-> s]

\* furl.Path.isdir
FurlIsDir(p) == p.segments = <<>> \/ Last(p.segments) = ""

\* str.lstrip('/') on a string that starts with '/': the leading empty
\* components go, the last component stays even when it is empty.
RECURSIVE LStripSlash(_)
LStripSlash(s) ==
    IF Len(s) > 1 /\ s[1] = "" THEN LStripSlash(Tail(s)) ELSE s

\* The component loop of posixpath.normpath.
RECURSIVE NormComps(_, _, _)
NormComps(comps, initial, acc) ==
    IF comps = <<>> THEN acc
    ELSE LET c == Head(comps)
             rest == Tail(comps)
         IN  IF c = "" \/ c = "."
             THEN NormComps(rest, initial, acc)
             ELSE IF c # ".."
                     \/ (~initial /\ acc = <<>>)
                     \/ (acc # <<>> /\ Last(acc) = "..")
                  THEN NormComps(rest, initial, Append(acc, c))
                  ELSE IF acc # <<>>
                       THEN NormComps(rest, initial, Front(acc))
                       ELSE NormComps(rest, initial, acc)

\* posixpath.normpath: '' -> '.', one leading slash kept ('//' exactly is
\* kept as two), '.' and empty components dropped, 'x/..' collapsed.
normpath(s) ==
    IF s = EmptyStr THEN <<".">>
    ELSE LET initial == Len(s) >= 2 /\ s[1] = ""
             two == initial /\ Len(s) >= 3 /\ s[2] = ""
                      /\ ~(Len(s) >= 4 /\ s[3] = "")
             acc == NormComps(s, initial, <<>>)
             lead == IF two THEN <<"", "">> ELSE IF initial THEN <<"">> ELSE <<>>
             body == IF acc = <<>> /\ initial THEN <<"">> ELSE acc
             out == lead \o body
         IN  IF out = <<>> THEN <<".">> ELSE out

\* Link extraction without the normalize() of main.py:67.
FurlNormalize_none(p) == p

\* furl.Path.normalize: nothing for the empty path; otherwise normpath plus
\* a '/' when the path is a directory, a leading '//' cut down to '/'.
FurlNormalize(p) ==
    IF FurlPathStr(p) = EmptyStr THEN p
    ELSE LET Slash(n) == IF FurlIsDir(p) THEN Append(n, "") ELSE n
             Cut(d) == IF Len(d) >= 3 /\ d[1] = "" /\ d[2] = ""
                       THEN <<"">> \o LStripSlash(d) ELSE d
         IN  Only({FurlPathLoad(f) : f \in {Cut(d) : d \in
                      {Slash(n) : n \in {normpath(FurlPathStr(p))}}}})

\* ------------------------------------------------------------------------
\* pathlib.Path (library behaviour behind main.py:36,67)
\* ------------------------------------------------------------------------
\* pathlib.Path(str): '.' and empty components are dropped, '..' is kept.
PathlibParse(s) ==
    [abs |-> Len(s) >= 2 /\ s[1] = "",
     parts |-> SelectSeq(s, LAMBDA c : c # "" /\ c # ".")]

\* pathlib's '/' operator: an absolute right operand replaces the left one.
PathlibJoin(p, q) ==
    IF q.abs THEN q ELSE [abs |-> p.abs, parts |-> p.parts \o q.parts]

\* str(pathlib.Path)
PathlibStr(p) ==
    IF p.abs THEN (IF p.parts = <<>> THEN <<"", "">> ELSE <<"">> \o p.parts)
    ELSE IF p.parts = <<>> THEN <<".">> ELSE p.parts

RootPath == [abs |-> TRUE, parts |-> <<>>]

\* ------------------------------------------------------------------------
\* URL (main.py:20-37)
\* ------------------------------------------------------------------------
DefaultScheme == "https"

URL(host, path) == [host |-> host, path |-> path, scheme |-> DefaultScheme]

URLWithScheme(host, path, scheme) == [host |-> host, path |-> path, scheme |-> scheme]

\* URL.furl.tostr(): scheme://host/path; with a host the path is absolute.
tostr(u) ==
    [scheme |-> u.scheme, host |-> u.host,
     segments |-> FurlPathLoad(PathlibStr(u.path)).segments]

\* set_host that hands back the receiver.
set_host_keep(u, host) == u

set_host(u, host) == URL(host, u.path)

join_path(u, other) == URL(u.host, PathlibJoin(u.path, other))

\* ------------------------------------------------------------------------
\* Page.get_urls (main.py:55-68)
\* ------------------------------------------------------------------------
NoHost == "None"

\* An anchor element: has_href says whether it carries the attribute, host
\* and path are furl's parse of the attribute; parses is FALSE for an href
\* that furl.furl rejects with a ValueError (href="http://[::1").
Anchor(has, host, isabs, segs) ==
    [has_href |-> has, host |-> host,
     path |-> [isabsolute |-> isabs, segments |-> segs], parses |-> TRUE]

Malformed(a) == a.has_href /\ ~a.parses

AtSegs == {"bob@example.com"}

\* "@" in str(href.path)
HasAt(p) == \E i \in 1..Len(p.segments) : p.segments[i] \in AtSegs

\* Link extraction without the host test of main.py:62-63.
anchor_urls_anyhost(url, a) ==
    IF ~a.has_href THEN <<>>
    ELSE IF HasAt(a.path) THEN <<>>
    ELSE <<[host |-> url.host, scheme |-> "https",
            path |-> PathlibJoin(url.path, PathlibParse(FurlPathStr(a.path)))]>>

\* The URLs one anchor contributes: none or one.
anchor_urls(url, a) ==
    IF ~a.has_href THEN <<>>
    ELSE IF a.host # NoHost /\ a.host # url.host THEN <<>>
    ELSE IF HasAt(a.path) THEN <<>>
    ELSE Only({<<join_path(url, path)>> :
                  path \in {PathlibParse(str) : str \in
                      {FurlPathStr(n) : n \in {FurlNormalize(a.path)}}}})

RECURSIVE get_urls_of(_, _)
get_urls_of(url, body) ==
    IF body = <<>> THEN <<>>
    ELSE anchor_urls(url, Head(body)) \o get_urls_of(url, Tail(body))

\* What get_urls yields when furl.furl accepts every href of the page.
get_urls(page) == get_urls_of(page.url, page.body)

\* furl.furl(a["href"]) raises inside the generator (main.py:60); nothing in
\* get_urls or in list(page.get_urls()) (main.py:110) catches it.
get_urls_raises(page) == \E i \in 1..Len(page.body) : Malformed(page.body[i])

\* ------------------------------------------------------------------------
\* Pages, responses and the network (main.py:46-53, 101-105)
\* ------------------------------------------------------------------------
TransportError == [error |-> "transport"]

Response(status, content) == [status_code |-> status, content |-> content]

Page(url, response) ==
    [url |-> url, status_code |-> response.status_code, body |-> response.content]

NoPage == [none |-> TRUE]

\* get_page(url): the page built from the response; httpx.get raising is
\* the caller's exception, modelled by the callers below.
get_page(url, response) == Page(url, response)

\* ------------------------------------------------------------------------
\* PageCache.get_page (main.py:75-98)
\* ------------------------------------------------------------------------
\* pickle.dump / pickle.load: a file holds either a pickle of a page or
\* bytes that pickle.load rejects.
Dumps(page) == [kind |-> "pickle", obj |-> page]

Garbage == [kind |-> "garbage"]

CanLoad(file) == file.kind = "pickle"

Loads(file) == file.obj

is_file(c, key) == key \in DOMAIN c

unlink(c, key) == [k \in DOMAIN c \ {key} |-> c[k]]

write_file(c, key, file) == [k \in DOMAIN c \cup {key} |-> IF k = key THEN file ELSE c[k]]

\* What the caller finds at the cache location before the call.
ArtifactState(c, url) ==
    IF ~is_file(c, tostr(url)) THEN "absent"
    ELSE IF CanLoad(c[tostr(url)]) THEN "valid" ELSE "corrupt"

\* get_page that returns the fetched page without writing the artifact.
PageCache_get_page_nowrite(c, url, response) ==
    LET key == tostr(url)
        hit == is_file(c, key) /\ CanLoad(c[key])
        c1 == IF is_file(c, key) /\ ~CanLoad(c[key]) THEN unlink(c, key) ELSE c
    IN  IF hit
        THEN [raised |-> FALSE, page |-> Loads(c[key]), cache |-> c, fetched |-> FALSE]
        ELSE IF response = TransportError
             THEN [raised |-> TRUE, page |-> NoPage, cache |-> c1, fetched |-> TRUE]
             ELSE [raised |-> FALSE, page |-> get_page(url, response), cache |-> c1,
                   fetched |-> TRUE]

\* get_page without the unlink of main.py:87: the file is still there at
\* main.py:89, nothing is fetched, and the read of main.py:97-98 raises.
PageCache_get_page_nounlink(c, url, response) ==
    LET key == tostr(url)
        c2 == write_file(c, key, Dumps(get_page(url, response)))
    IN  IF is_file(c, key)
        THEN IF CanLoad(c[key])
             THEN [raised |-> FALSE, page |-> Loads(c[key]), cache |-> c,
                   fetched |-> FALSE]
             ELSE [raised |-> TRUE, page |-> NoPage, cache |-> c, fetched |-> FALSE]
        ELSE IF response = TransportError
             THEN [raised |-> TRUE, page |-> NoPage, cache |-> c, fetched |-> TRUE]
             ELSE [raised |-> FALSE, page |-> Loads(c2[key]), cache |-> c2,
                   fetched |-> TRUE]

\* get_page that treats a non-2xx answer as an error, as
\* response.raise_for_status() would.
PageCache_get_page_raise4xx(c, url, response) ==
    LET key == tostr(url)
        hit == is_file(c, key) /\ CanLoad(c[key])
        c1 == IF is_file(c, key) /\ ~CanLoad(c[key]) THEN unlink(c, key) ELSE c
        c2 == write_file(c1, key, Dumps(get_page(url, response)))
    IN  IF hit
        THEN [raised |-> FALSE, page |-> Loads(c[key]), cache |-> c, fetched |-> FALSE]
        ELSE IF response = TransportError
             THEN [raised |-> TRUE, page |-> NoPage, cache |-> c1, fetched |-> TRUE]
             ELSE IF response.status_code \notin 200..299
                  THEN [raised |-> TRUE, page |-> NoPage, cache |-> c1, fetched |-> TRUE]
                  ELSE [raised |-> FALSE, page |-> Loads(c2[key]), cache |-> c2,
                        fetched |-> TRUE]

\* One call of PageCache.get_page.  `response` is what httpx.get answers if
\* it is asked (TransportError: it raises).  The result tells whether the
\* call raised, the page returned, the cache directory afterwards and
\* whether the network was asked.
\* get_page that answers a failed request with an empty page instead of
\* raising.
PageCache_get_page_sentinel(c, url, response) ==
    LET key == tostr(url)
        hit == is_file(c, key) /\ CanLoad(c[key])
        c1 == IF is_file(c, key) /\ ~CanLoad(c[key]) THEN unlink(c, key) ELSE c
        c2 == write_file(c1, key, Dumps(get_page(url, response)))
    IN  IF hit
        THEN [raised |-> FALSE, page |-> Loads(c[key]), cache |-> c, fetched |-> FALSE]
        ELSE IF response = TransportError
             THEN [raised |-> FALSE, page |-> Page(url, Response(0, <<>>)),
                   cache |-> c1, fetched |-> TRUE]
             ELSE [raised |-> FALSE, page |-> Loads(c2[key]), cache |-> c2,
                   fetched |-> TRUE]

PageCache_get_page(c, url, response) ==
    LET key == tostr(url)
        hit == is_file(c, key) /\ CanLoad(c[key])
        c1 == IF is_file(c, key) /\ ~CanLoad(c[key]) THEN unlink(c, key) ELSE c
        c2 == write_file(c1, key, Dumps(get_page(url, response)))
    IN  IF hit
        THEN [raised |-> FALSE, page |-> Loads(c[key]), cache |-> c, fetched |-> FALSE]
        ELSE IF response = TransportError
             THEN [raised |-> TRUE, page |-> NoPage, cache |-> c1, fetched |-> TRUE]
             ELSE [raised |-> FALSE, page |-> Loads(c2[key]), cache |-> c2,
                   fetched |-> TRUE]

\* ------------------------------------------------------------------------
\* The two sites and the environment of one run
\* ------------------------------------------------------------------------
OriginalHost == "original.example"

TargetHost == "target.example"

OtherHost == "otherhost.example"

A_root == Anchor(TRUE, NoHost, TRUE, <<"">>)

A_a == Anchor(TRUE, NoHost, TRUE, <<"a">>)

A_b == Anchor(TRUE, NoHost, TRUE, <<"b">>)

A_missing == Anchor(TRUE, NoHost, TRUE, <<"missing">>)

\* href="/b/../a/": another spelling of /a
A_a_variant == Anchor(TRUE, NoHost, TRUE, <<"b", "..", "a", "">>)

\* href="https://otherhost.example/a"
A_other == Anchor(TRUE, OtherHost, TRUE, <<"a">>)

\* href="http://[::1"
A_bad == [Anchor(TRUE, NoHost, FALSE, <<>>) EXCEPT !.parses = FALSE]

\* The root page links among these; /missing is linked from /a only.
WalkAnchors == {A_root, A_a, A_b, A_a_variant, A_other}

RootBodies == SeqsUpTo(WalkAnchors, MaxBody)

ABodies == {<<>>, <<A_missing>>, <<A_root>>, <<A_b>>, <<A_bad, A_b>>}

BBodies == {<<>>, <<A_a>>, <<A_root>>}

P_root == <<"">>

P_a == <<"a">>

P_b == <<"b">>

P_missing == <<"missing">>

\* The paths the original site serves with status 200.
ServedPaths == {P_root, P_a, P_b, P_missing}

Key(host, segments) == [scheme |-> DefaultScheme, host |-> host, segments |-> segments]

StalePage(host, parts) ==
    Page(URL(host, [abs |-> TRUE, parts |-> parts]), Response(404, <<>>))

\* What the run finds around it: target paths that are gone, URLs whose
\* fetch raises a transport error, and the cache directory left by earlier
\* runs.
Env(gone, down, cache0) ==
    [gone |-> gone, down |-> down, cache0 |-> cache0, ogone |-> {}]

EmptyCache == [k \in {} |-> Garbage]

\* The same with original paths that answer 404.
EnvOriginalGone(ogone) == [Env({}, {}, EmptyCache) EXCEPT !.ogone = ogone]

Envs ==
    { Env({}, {}, EmptyCache),
      Env({P_missing}, {}, EmptyCache),
      Env({P_missing}, {}, write_file(EmptyCache, Key(OriginalHost, P_a), Garbage)),
      Env({P_missing}, {}, write_file(EmptyCache, Key(TargetHost, P_a), Garbage)),
      Env({}, {}, write_file(EmptyCache, Key(OriginalHost, P_a),
                             Dumps(StalePage(OriginalHost, <<"a">>)))),
      Env({}, {Key(OriginalHost, P_b)}, EmptyCache),
      Env({}, {Key(TargetHost, P_a)}, EmptyCache),
      Env({}, {Key(OriginalHost, P_root)}, EmptyCache),
      EnvOriginalGone({P_b}) }

\* httpx.get(url.furl.tostr()) against the modelled servers.
Fetch(w, url) ==
    LET k == tostr(url)
        body == IF k.segments = P_root THEN w.rootBody
                ELSE IF k.segments = P_a THEN w.aBody
                ELSE IF k.segments = P_b THEN w.bBody
                ELSE <<>>
    IN  IF k \in w.env.down THEN TransportError
        ELSE IF k.segments \notin ServedPaths THEN Response(404, <<>>)
        ELSE IF \/ k.host = TargetHost /\ k.segments \in w.env.gone
                \/ k.host = OriginalHost /\ k.segments \in w.env.ogone
             THEN Response(404, <<>>)
             ELSE Response(200, body)

\* ------------------------------------------------------------------------
\* State
\* ------------------------------------------------------------------------
VARIABLES
    web,        \* the servers' content and the environment of this run
    cache,      \* the cache directory: file name (URL text) -> file
    pages,      \* original.pages, a dict in insertion order: <<[key, page]>>
    stack,      \* the active process_page calls: <<[page, urls, i]>>
    pc,         \* where the program is
    header,     \* the report's header row was written
    rows,       \* the report's rows so far
    cmp_i,      \* position of the comparator loop in original.pages
    calls,      \* the calls of PageCache.get_page so far, in order
    in_url,     \* link extraction on its own: the page's URL
    in_body,    \* link extraction on its own: the page's anchors
    out_urls,   \* link extraction on its own: what get_urls yielded
    target_pages, \* target.pages, the dict of the target Site (main.py:150-156)
    workers,    \* concurrent callers of PageCache.get_page: <<[at, ...]>>
    disk        \* concurrent callers: the files behind the cache location

vars == <<web, cache, pages, stack, pc, header, rows, cmp_i, calls,
          in_url, in_body, out_urls, target_pages, workers, disk>>

\* ------------------------------------------------------------------------
\* dict operations on original.pages
\* ------------------------------------------------------------------------
Keys(d) == {d[i].key : i \in 1..Len(d)}

\* The membership test as the log line of main.py:112 writes it,
\* str(url) in site.pages: no key of the dict is a string.
InPages_str(url, d) == FALSE

\* url in site.pages (main.py:114)
InPages(url, d) == url \in Keys(d)

\* An assignment that starts the dict afresh.
DictSet_reset(d, k, v) == <<[key |-> k, page |-> v]>>

\* d[k] = v: a new key goes last, an existing key keeps its place.
DictSet(d, k, v) ==
    IF k \in Keys(d)
    THEN [i \in 1..Len(d) |-> IF d[i].key = k THEN [key |-> k, page |-> v] ELSE d[i]]
    ELSE Append(d, [key |-> k, page |-> v])

\* ------------------------------------------------------------------------
\* main (main.py:131-187), walk_site (124-128), process_page (108-118)
\* ------------------------------------------------------------------------
\* main.py:143-156: the two Site objects built from the command line
\* ("https://original.example/", "https://target.example/").
site_url(host) ==
    URL(host,
        PathlibParse(FurlPathStr(FurlNormalize([isabsolute |-> TRUE, segments |-> <<"">>]))))

original_url == site_url(OriginalHost)

target_url == site_url(TargetHost)

\* process_page that does not look at the page's links.
Frame_noexpand(page) == [page |-> page, urls |-> <<>>, i |-> 1]

Frame(page) == [page |-> page, urls |-> get_urls(page), i |-> 1]

\* The record kept of one call of PageCache.get_page: what was at the cache
\* location before and after, what the network answers, what came back.
Call(phase, url, c, response, r) ==
    [phase |-> phase, url |-> url, pre |-> ArtifactState(c, url),
     response |-> response, fetched |-> r.fetched, raised |-> r.raised,
     ret |-> r.page, post |-> ArtifactState(r.cache, url),
     stored |-> IF ArtifactState(r.cache, url) = "valid"
                THEN Loads(r.cache[tostr(url)]) ELSE NoPage]

ExtractIdle ==
    /\ in_url = URL(OriginalHost, RootPath)
    /\ in_body = <<>>
    /\ out_urls = <<>>

\* ino: the file the cache location names (0: none); data: the content of
\* every file created so far, named or not.
NoDisk == [ino |-> 0, data |-> <<>>]

NoWorkers == workers = <<>> /\ disk = NoDisk

WalkIdle ==
    /\ pages = <<>>
    /\ target_pages = <<>>
    /\ stack = <<>>
    /\ header = FALSE
    /\ rows = <<>>
    /\ cmp_i = 1

Webs == [rootBody : RootBodies, aBody : ABodies, bBody : BBodies, env : Envs]

NoWeb == [rootBody |-> <<>>, aBody |-> <<>>, bBody |-> <<>>,
          env |-> Env({}, {}, EmptyCache)]

\* One run of main().
MainInit ==
    /\ web \in Webs
    /\ cache = web.env.cache0
    /\ pc = "start"
    /\ calls = <<>>
    /\ WalkIdle
    /\ ExtractIdle
    /\ NoWorkers

\* walk_site: fetch the root through the cache, record it, expand it.
WalkStart ==
    /\ pc = "start"
    /\ \E response \in {Fetch(web, original_url)} :
       \E r \in {PageCache_get_page(cache, original_url, response)} :
           /\ cache' = r.cache
           /\ calls' = Append(calls, Call("walk", original_url, cache, response, r))
           /\ IF r.raised
              THEN /\ pc' = "crashed"
                   /\ UNCHANGED <<pages, stack>>
              ELSE /\ pages' = DictSet(pages, r.page.url, r.page)
                   /\ IF get_urls_raises(r.page)
                      THEN stack' = stack /\ pc' = "crashed"
                      ELSE stack' = <<Frame(r.page)>> /\ pc' = "walk"
    /\ UNCHANGED <<web, target_pages, workers, disk, header, rows, cmp_i, in_url, in_body, out_urls>>

Top == stack[Len(stack)]

\* A loop that does not move to the next URL.
Advance_stay(s) == s

Advance(s) == [s EXCEPT ![Len(s)].i = @ + 1]

\* process_page, one iteration whose url is already a key of site.pages.
ProcessSkip ==
    /\ pc = "walk"
    /\ stack # <<>>
    /\ Top.i <= Len(Top.urls)
    /\ InPages(Top.urls[Top.i], pages)
    /\ stack' = Advance(stack)
    /\ UNCHANGED <<web, target_pages, workers, disk, cache, pages, pc, header, rows, cmp_i, calls,
                   in_url, in_body, out_urls>>

\* process_page, one iteration whose url is new: fetch it through the
\* cache, insert it, and enter process_page for the new page.
ProcessFetch ==
    /\ pc = "walk"
    /\ stack # <<>>
    /\ Top.i <= Len(Top.urls)
    /\ ~InPages(Top.urls[Top.i], pages)
    /\ \E url \in {Top.urls[Top.i]} :
       \E response \in {Fetch(web, url)} :
       \E r \in {PageCache_get_page(cache, url, response)} :
           /\ cache' = r.cache
           /\ calls' = Append(calls, Call("walk", url, cache, response, r))
           /\ IF r.raised
              THEN /\ pc' = "crashed"
                   /\ UNCHANGED <<pages, stack>>
              ELSE /\ pages' = DictSet(pages, r.page.url, r.page)
                   /\ IF get_urls_raises(r.page)
                      THEN stack' = stack /\ pc' = "crashed"
                      ELSE /\ stack' = Append(Advance(stack), Frame(r.page))
                           /\ pc' = pc
    /\ UNCHANGED <<web, target_pages, workers, disk, header, rows, cmp_i, in_url, in_body, out_urls>>

\* process_page returns when its loop is exhausted; when the outermost call
\* returns, walk_site returns and main writes the header row (main.py:174).
ProcessReturn ==
    /\ pc = "walk"
    /\ stack # <<>>
    /\ Top.i > Len(Top.urls)
    /\ stack' = Front(stack)
    /\ IF Len(stack) = 1
       THEN pc' = "compare" /\ header' = TRUE
       ELSE pc' = pc /\ header' = header
    /\ UNCHANGED <<web, target_pages, workers, disk, cache, pages, rows, cmp_i, calls, in_url, in_body, out_urls>>

\* A report row with the two status columns filled from the same page.
Row_swapped(page, target_page) ==
    [original |-> tostr(page.url),
     target |-> tostr(target_page.url),
     original_status_code |-> page.status_code,
     target_status_code |-> page.status_code,
     original_path |-> PathlibStr(page.url.path),
     target_path |-> PathlibStr(target_page.url.path)]

Row(page, target_page) ==
    [original |-> tostr(page.url),
     target |-> tostr(target_page.url),
     original_status_code |-> page.status_code,
     target_status_code |-> target_page.status_code,
     original_path |-> PathlibStr(page.url.path),
     target_path |-> PathlibStr(target_page.url.path)]

\* A comparator that records each target page in target.pages, as a walk of
\* the target would.
CompareRow_walk ==
    /\ pc = "compare"
    /\ cmp_i <= Len(pages)
    /\ \E page \in {pages[cmp_i].page} :
       \E t_url \in {set_host(page.url, target_url.host)} :
       \E response \in {Fetch(web, t_url)} :
       \E r \in {PageCache_get_page(cache, t_url, response)} :
           /\ cache' = r.cache
           /\ calls' = Append(calls, Call("compare", t_url, cache, response, r))
           /\ IF r.raised
              THEN /\ pc' = "crashed"
                   /\ UNCHANGED <<rows, cmp_i, target_pages>>
              ELSE /\ rows' = Append(rows, Row(page, r.page))
                   /\ target_pages' = DictSet(target_pages, r.page.url, r.page)
                   /\ cmp_i' = cmp_i + 1
                   /\ pc' = pc
    /\ UNCHANGED <<web, workers, disk, pages, stack, header, in_url, in_body, out_urls>>

\* main.py:175-187, one iteration of the comparator loop.
CompareRow ==
    /\ pc = "compare"
    /\ cmp_i <= Len(pages)
    /\ \E page \in {pages[cmp_i].page} :
       \E t_url \in {set_host(page.url, target_url.host)} :
       \E response \in {Fetch(web, t_url)} :
       \E r \in {PageCache_get_page(cache, t_url, response)} :
           /\ cache' = r.cache
           /\ calls' = Append(calls, Call("compare", t_url, cache, response, r))
           /\ IF r.raised
              THEN /\ pc' = "crashed"
                   /\ UNCHANGED <<rows, cmp_i>>
              ELSE /\ rows' = Append(rows, Row(page, r.page))
                   /\ cmp_i' = cmp_i + 1
                   /\ pc' = pc
    /\ UNCHANGED <<web, target_pages, workers, disk, pages, stack, header, in_url, in_body, out_urls>>

\* The comparator loop is exhausted: main returns.
CompareDone ==
    /\ pc = "compare"
    /\ cmp_i > Len(pages)
    /\ pc' = "done"
    /\ UNCHANGED <<web, target_pages, workers, disk, cache, pages, stack, header, rows, cmp_i, calls,
                   in_url, in_body, out_urls>>

\* ------------------------------------------------------------------------
\* Page.get_urls applied to one page on its own
\* ------------------------------------------------------------------------
HrefSegs == {"a", "..", ".", ""}

Schemes == {"https", "http"}

\* href="/a/b/../c", "/a/c", "/a/b/", "/a/b", "../c", "/x/y"
H_abdc == Anchor(TRUE, NoHost, TRUE, <<"a", "b", "..", "c">>)

H_ac == Anchor(TRUE, NoHost, TRUE, <<"a", "c">>)

H_ab_slash == Anchor(TRUE, NoHost, TRUE, <<"a", "b", "">>)

H_ab == Anchor(TRUE, NoHost, TRUE, <<"a", "b">>)

H_up_c == Anchor(TRUE, NoHost, FALSE, <<"..", "c">>)

H_xy == Anchor(TRUE, NoHost, TRUE, <<"x", "y">>)

\* href="https://otherhost.example/a", "https://original.example/a"
H_other == Anchor(TRUE, OtherHost, TRUE, <<"a">>)

H_same == Anchor(TRUE, OriginalHost, TRUE, <<"a">>)

\* href="mailto:bob@example.com", "/a/bob@example.com", and <a> without href
H_mailto == Anchor(TRUE, NoHost, FALSE, <<"bob@example.com">>)

H_at == Anchor(TRUE, NoHost, TRUE, <<"a", "bob@example.com">>)

H_nohref == Anchor(FALSE, NoHost, FALSE, <<>>)

\* href="http://[::1"
H_bad == [Anchor(TRUE, NoHost, FALSE, <<>>) EXCEPT !.parses = FALSE]

\* The paths furl can parse out of a string: load(str(p)) = p.
WellFormed(p) == FurlPathLoad(FurlPathStr(p)) = p

HrefPaths ==
    {p \in [isabsolute : BOOLEAN, segments : SeqsUpTo(HrefSegs, MaxHrefLen)] :
        WellFormed(p)}

Hrefs ==
    {Anchor(TRUE, NoHost, p.isabsolute, p.segments) : p \in HrefPaths}
    \cup {H_abdc, H_ac, H_ab_slash, H_ab, H_up_c, H_xy, H_other, H_same,
          H_mailto, H_at, H_nohref, H_bad}

PagePaths == {RootPath, [abs |-> TRUE, parts |-> <<"a", "b">>]}

ExtractInit ==
    /\ in_url \in {URLWithScheme(OriginalHost, p, s) : p \in PagePaths, s \in Schemes}
    /\ in_body = <<>>
    /\ out_urls = <<>>
    /\ pc = "extract"
    /\ web = NoWeb
    /\ cache = EmptyCache
    /\ calls = <<>>
    /\ WalkIdle
    /\ NoWorkers

\* list(page.get_urls()) for a page with a pair of anchors (main.py:110).
Extract ==
    /\ pc = "extract"
    /\ \E h1 \in Hrefs, h2 \in Hrefs :
          /\ in_body' = <<h1, h2>>
          /\ IF get_urls_raises(Page(in_url, Response(200, <<h1, h2>>)))
             THEN out_urls' = <<>> /\ pc' = "extract_raised"
             ELSE /\ out_urls' = get_urls(Page(in_url, Response(200, <<h1, h2>>)))
                  /\ pc' = "extracted"
    /\ UNCHANGED <<web, target_pages, workers, disk, cache, pages, stack, header, rows, cmp_i, calls, in_url>>

\* page.url.set_host(target.url.host) for one URL on its own (main.py:176).
Rehost ==
    /\ pc = "extract"
    /\ out_urls' = <<set_host(in_url, target_url.host)>>
    /\ pc' = "rehosted"
    /\ UNCHANGED <<web, target_pages, workers, disk, cache, pages, stack, header, rows, cmp_i,
                   calls, in_url, in_body>>

\* ------------------------------------------------------------------------
\* PageCache.get_page called on its own, with the cache directory open to
\* damage between calls
\* ------------------------------------------------------------------------
CacheURLs ==
    {URL(OriginalHost, [abs |-> TRUE, parts |-> <<"a">>]),
     URL(TargetHost, [abs |-> TRUE, parts |-> <<"a">>])}

CacheResponses == {Response(200, <<A_b>>), Response(404, <<>>), TransportError}

CacheInit ==
    /\ cache = EmptyCache
    /\ calls = <<>>
    /\ pc = "cache"
    /\ web = NoWeb
    /\ WalkIdle
    /\ ExtractIdle
    /\ NoWorkers

CacheGetPage ==
    /\ pc = "cache"
    /\ Len(calls) < MaxCalls
    /\ \E url \in CacheURLs, response \in CacheResponses :
          LET r == PageCache_get_page(cache, url, response)
          IN  /\ cache' = r.cache
              /\ calls' = Append(calls, Call("call", url, cache, response, r))
    /\ UNCHANGED <<web, target_pages, workers, disk, pages, stack, pc, header, rows, cmp_i, in_url, in_body, out_urls>>

NoResult == [raised |-> FALSE, page |-> NoPage, cache |-> EmptyCache, fetched |-> FALSE]

\* Something other than get_page leaves bytes at a cache location that
\* pickle.load rejects (an interrupted earlier run, a test).
WriteGarbage ==
    /\ pc = "cache"
    /\ Len(calls) < MaxCalls
    /\ \E url \in CacheURLs :
          LET c2 == write_file(cache, tostr(url), Garbage)
          IN  /\ cache' = c2
              /\ calls' = Append(calls,
                    Call("garbage", url, cache, TransportError,
                         [NoResult EXCEPT !.cache = c2]))
    /\ UNCHANGED <<web, target_pages, workers, disk, pages, stack, pc, header, rows, cmp_i, in_url, in_body, out_urls>>

\* ------------------------------------------------------------------------
\* Specification
\* ------------------------------------------------------------------------
Init == MainInit \/ ExtractInit \/ CacheInit

Next ==
    \/ WalkStart
    \/ ProcessSkip
    \/ ProcessFetch
    \/ ProcessReturn
    \/ CompareRow
    \/ CompareDone
    \/ Extract
    \/ Rehost
    \/ CacheGetPage
    \/ WriteGarbage

Spec == Init /\ [][Next]_vars

\* One run of main() on its own, from the command line on: the options give
\* the sites and the cache directory (main.py:131-159), and the interpreter
\* executes the next statement of the single thread whenever there is one.
LiveInit ==
    /\ web = NoWeb
    /\ cache = EmptyCache
    /\ pc = "invoke"
    /\ calls = <<>>
    /\ WalkIdle
    /\ ExtractIdle
    /\ NoWorkers

\* The surroundings that bear on the walk: nothing special, a corrupt
\* artifact, a failing request below the root, a failing root request, an
\* original page that answers 404.
LiveEnvs ==
    { Env({}, {}, EmptyCache),
      Env({P_missing}, {}, write_file(EmptyCache, Key(OriginalHost, P_a), Garbage)),
      Env({}, {Key(OriginalHost, P_b)}, EmptyCache),
      Env({}, {Key(OriginalHost, P_root)}, EmptyCache),
      EnvOriginalGone({P_b}) }

Invoke ==
    /\ pc = "invoke"
    /\ web' \in {w \in Webs : w.env \in LiveEnvs}
    /\ cache' = web'.env.cache0
    /\ pc' = "start"
    /\ UNCHANGED <<target_pages, workers, disk, pages, stack, header, rows, cmp_i, calls,
                   in_url, in_body, out_urls>>

NextMain ==
    \/ Invoke
    \/ WalkStart
    \/ ProcessSkip
    \/ ProcessFetch
    \/ ProcessReturn
    \/ CompareRow
    \/ CompareDone

LiveSpec == LiveInit /\ [][NextMain]_vars /\ WF_vars(NextMain)

\* ------------------------------------------------------------------------
\* PageCache.get_page run by several callers at once (main.py:75-98)
\* ------------------------------------------------------------------------
\* Callers (threads, or runs of the program sharing the cache directory)
\* execute get_page for the same URL; each file-system call is one step.
\* A caller is at the line it executes next.
\* The pages are small: the pickle of a Page is at most 4096 bytes, one
\* buffer of the file object, so that pickle.dump with the close of its with
\* block is one write() and pickle.load gets the file with one read(). For
\* such files a read sees the file empty or holding a complete pickle at its
\* start, never a part of one. Pages with a longer pickle, whose load is
\* several read() calls with other callers' steps between them, are outside
\* this specification.
\* A caller ends at "returned", at "failed" (an exception of a file
\* operation leaves get_page) or at "fetch_raised" (the exception of
\* httpx.get leaves get_page).
NumCallers == 2

Callers == 1..NumCallers

\* A file that open(..., "wb") has created or truncated and that holds no
\* byte yet: pickle.load raises EOFError on it.
Truncated == [kind |-> "truncated"]

\* fd: the file this caller has open (0: none). An open file stays readable
\* and writable after its name is unlinked.
Caller0 == [at |-> "L79", page |-> NoPage, fd |-> 0, ret |-> NoPage]

OKResponses == {Response(200, <<A_b>>), Response(404, <<>>)}

\* The cache directory as a lookup by name sees it: no entry when the name
\* is unlinked, else the content of the file the name points to.
View(d, url) ==
    IF d.ino = 0 THEN EmptyCache
    ELSE write_file(EmptyCache, tostr(url), d.data[d.ino])

ConcInit ==
    /\ pc = "callers"
    /\ in_url \in CacheURLs
    /\ disk \in {NoDisk,
                 [ino |-> 1, data |-> <<Garbage>>],
                 [ino |-> 1, data |-> <<Dumps(Page(in_url, Response(200, <<A_b>>)))>>]}
    /\ cache = View(disk, in_url)
    /\ workers = [w \in Callers |-> Caller0]
    /\ web = NoWeb
    /\ calls = <<>>
    /\ in_body = <<>>
    /\ out_urls = <<>>
    /\ WalkIdle

At(w, line) == pc = "callers" /\ workers[w].at = line

Goto(w, line) == workers' = [workers EXCEPT ![w].at = line]

ConcFrame == UNCHANGED <<web, target_pages, pages, stack, pc, header, rows, cmp_i,
                         calls, in_url, in_body, out_urls>>

DiskUnchanged == UNCHANGED <<disk, cache>>

\* main.py:79  if cache_path.is_file():
IsFile(w) ==
    /\ At(w, "L79")
    /\ Goto(w, IF is_file(cache, tostr(in_url)) THEN "L81" ELSE "L89")
    /\ DiskUnchanged
    /\ ConcFrame

\* main.py:81  cache_path.open("rb") inside the try: FileNotFoundError lands
\* in the except clause.
OpenRead(w) ==
    /\ At(w, "L81")
    /\ IF disk.ino # 0
       THEN workers' = [workers EXCEPT ![w].at = "L82", ![w].fd = disk.ino]
       ELSE Goto(w, "L87")
    /\ DiskUnchanged
    /\ ConcFrame

\* main.py:82  return pickle.load(fp) on the file opened at line 81,
\* whatever the cache location names by now: one read() of the whole file.
\* Unloadable bytes and an empty file land in the except clause.
Load(w) ==
    /\ At(w, "L82")
    /\ IF CanLoad(disk.data[workers[w].fd])
       THEN workers' = [workers EXCEPT ![w].at = "returned", ![w].fd = 0,
                                       ![w].ret = Loads(disk.data[workers[w].fd])]
       ELSE workers' = [workers EXCEPT ![w].at = "L87", ![w].fd = 0]
    /\ DiskUnchanged
    /\ ConcFrame

\* main.py:87  cache_path.unlink() in the except clause: FileNotFoundError
\* leaves get_page when the name is gone. The file itself stays with the
\* callers that have it open.
Unlink(w) ==
    /\ At(w, "L87")
    /\ IF disk.ino # 0
       THEN /\ disk' = [disk EXCEPT !.ino = 0]
            /\ cache' = View(disk', in_url)
            /\ Goto(w, "L89")
       ELSE /\ Goto(w, "failed")
            /\ DiskUnchanged
    /\ ConcFrame

\* main.py:89  if not cache_path.is_file():
IsFileAgain(w) ==
    /\ At(w, "L89")
    /\ Goto(w, IF is_file(cache, tostr(in_url)) THEN "L97" ELSE "L92")
    /\ DiskUnchanged
    /\ ConcFrame

\* main.py:91-92  page = get_page(url): the server answers, or httpx.get
\* raises and the exception leaves get_page before the file is opened.
FetchPage(w) ==
    /\ At(w, "L92")
    /\ \E response \in OKResponses \cup {TransportError} :
          IF response = TransportError
          THEN Goto(w, "fetch_raised")
          ELSE workers' = [workers EXCEPT ![w].at = "L93",
                                          ![w].page = get_page(in_url, response)]
    /\ DiskUnchanged
    /\ ConcFrame

\* main.py:93  cache_path.open("wb") truncates the file the location names,
\* or creates one.
OpenWrite(w) ==
    /\ At(w, "L93")
    /\ disk' = IF disk.ino # 0
               THEN [disk EXCEPT !.data[disk.ino] = Truncated]
               ELSE [ino |-> Len(disk.data) + 1,
                     data |-> Append(disk.data, Truncated)]
    /\ cache' = View(disk', in_url)
    /\ workers' = [workers EXCEPT ![w].at = "L94", ![w].fd = disk'.ino]
    /\ ConcFrame

\* main.py:94  pickle.dump and the close of the with block: one write() at
\* offset 0 of the file opened at line 93, which may no longer be at the
\* cache location. When another caller wrote the same file before, this
\* pickle takes the start of the file, and it is the pickle a load returns.
Dump(w) ==
    /\ At(w, "L94")
    /\ disk' = [disk EXCEPT !.data[workers[w].fd] = Dumps(workers[w].page)]
    /\ cache' = View(disk', in_url)
    /\ workers' = [workers EXCEPT ![w].at = "L97", ![w].fd = 0]
    /\ ConcFrame

\* main.py:97  the second cache_path.open("rb"), outside any try.
OpenReread(w) ==
    /\ At(w, "L97")
    /\ IF disk.ino # 0
       THEN workers' = [workers EXCEPT ![w].at = "L98", ![w].fd = disk.ino]
       ELSE Goto(w, "failed")
    /\ DiskUnchanged
    /\ ConcFrame

\* main.py:98  return pickle.load(fp) on the file opened at line 97: one
\* read() of the whole file, outside any try, so an empty file (truncated by
\* another caller's open at line 93) raises EOFError out of get_page.
Reload(w) ==
    /\ At(w, "L98")
    /\ IF CanLoad(disk.data[workers[w].fd])
       THEN workers' = [workers EXCEPT ![w].at = "returned", ![w].fd = 0,
                                       ![w].ret = Loads(disk.data[workers[w].fd])]
       ELSE workers' = [workers EXCEPT ![w].at = "failed", ![w].fd = 0]
    /\ DiskUnchanged
    /\ ConcFrame

NextConc ==
    \E w \in Callers :
        \/ IsFile(w)
        \/ OpenRead(w)
        \/ Load(w)
        \/ Unlink(w)
        \/ IsFileAgain(w)
        \/ FetchPage(w)
        \/ OpenWrite(w)
        \/ Dump(w)
        \/ OpenReread(w)
        \/ Reload(w)

ConcSpec == ConcInit /\ [][NextConc]_vars

\* ------------------------------------------------------------------------
\* Properties
\* ------------------------------------------------------------------------
WalkCallsOf(url) ==
    {i \in 1..Len(calls) : calls[i].phase = "walk" /\ calls[i].url = url}

\* C1: during one walk_site run PageCache.get_page, and so the network, is
\* asked at most once per URL, whatever the link graph (cycles, several
\* parents) and the order of the links; every page under expansion was
\* inserted into site.pages before its expansion began.
C1_AtMostOnceFetch ==
    /\ \A i \in 1..Len(calls) :
          calls[i].phase = "walk" => Cardinality(WalkCallsOf(calls[i].url)) = 1
    /\ \A k \in 1..Len(stack) : stack[k].page.url \in Keys(pages)

\* C1 witness: a finished walk of a graph with a cycle (/ -> /a -> /) and a
\* page with two parents (/a from / and from /b).
C1_Witness ==
    /\ header
    /\ web.rootBody = <<A_b, A_a>>
    /\ web.aBody = <<A_root>>
    /\ web.bBody = <<A_a>>
    /\ Cardinality({i \in 1..Len(calls) : calls[i].phase = "walk"}) = 3

\* The page get_page returns for a URL in this run: the one an earlier run
\* left in the cache, or else the one the network answers.
LinkSet(w, url) ==
    IF ArtifactState(w.env.cache0, url) = "valid"
    THEN Range(get_urls(Loads(w.env.cache0[tostr(url)])))
    ELSE IF Fetch(w, url) = TransportError THEN {}
         ELSE Range(get_urls(Page(url, Fetch(w, url))))

RECURSIVE Closure(_, _)
Closure(w, S) ==
    LET N == S \cup UNION {LinkSet(w, u) : u \in S}
    IN  IF N = S THEN S ELSE Closure(w, N)

Reachable(w) == Closure(w, {original_url})

\* C2: when walk_site has finished, the keys of site.pages are exactly the
\* URLs reachable from the root by following extracted links; the set
\* depends on the links of each page as a set, not on their order.
C2_PagesAreReachableSet ==
    header => Keys(pages) = Reachable(web)

\* C2 witness: a finished walk that found /, /a, /b and /missing.
C2_Witness ==
    /\ header
    /\ Cardinality(Keys(pages)) = 4

\* Calls i < j of get_page for the same URL with nothing else touching that
\* cache location in between.
InSequence(i, j) ==
    /\ i < j
    /\ calls[i].phase # "garbage"
    /\ calls[j].phase # "garbage"
    /\ calls[i].url = calls[j].url
    /\ \A k \in (i + 1)..(j - 1) : calls[k].url # calls[i].url

\* C3: two calls of get_page(url) in sequence, the first finding no artifact
\* for url and the network answering it: the first fetches and leaves the
\* artifact, the second is served from it without a fetch, and the two
\* return equal pages; one network fetch in all.
C3_IdempotentCache ==
    \A i, j \in 1..Len(calls) :
        (InSequence(i, j) /\ calls[i].pre = "absent" /\ ~calls[i].raised) =>
            /\ calls[i].fetched
            /\ calls[i].post = "valid"
            /\ calls[i].stored = calls[i].ret
            /\ calls[j].pre = "valid"
            /\ ~calls[j].fetched
            /\ ~calls[j].raised
            /\ calls[j].ret = calls[i].ret

\* C3 witness: the second of two such calls has returned, the network now
\* answering something else than it did to the first.
C3_Witness ==
    \E i, j \in 1..Len(calls) :
        /\ InSequence(i, j)
        /\ calls[i].pre = "absent"
        /\ ~calls[i].raised
        /\ calls[j].response # calls[i].response
        /\ calls[j].response # TransportError

\* C4: a call of get_page that finds a corrupt artifact deletes it and asks
\* the network; the corrupt artifact is never what is returned or what is
\* left behind, the call raises only if the fetch itself raises, and when the
\* network answers the call returns the fresh page and leaves it as a valid
\* artifact.
C4_CorruptionRecovery ==
    \A i \in 1..Len(calls) :
        (calls[i].phase # "garbage" /\ calls[i].pre = "corrupt") =>
            /\ calls[i].fetched
            /\ calls[i].post # "corrupt"
            /\ calls[i].raised <=> (calls[i].response = TransportError)
            /\ ~calls[i].raised =>
                  /\ calls[i].ret = Page(calls[i].url, calls[i].response)
                  /\ calls[i].post = "valid"
                  /\ calls[i].stored = calls[i].ret

\* C4 witness: a call that found a corrupt artifact has returned a page.
C4_Witness ==
    \E i \in 1..Len(calls) :
        /\ calls[i].phase # "garbage"
        /\ calls[i].pre = "corrupt"
        /\ ~calls[i].raised
        /\ calls[i].post = "valid"

AB == [abs |-> TRUE, parts |-> <<"a", "b">>]

AC == [abs |-> TRUE, parts |-> <<"a", "c">>]

XY == [abs |-> TRUE, parts |-> <<"x", "y">>]

\* C5: join_path resolves an href against the page's path into a canonical
\* path: on the page /a/b the relative href ../c gives /a/c, the same URL as
\* the absolute href /a/c gives, and the absolute href /x/y gives /x/y on the
\* page's host.  (The code keeps the '..': it gives /a/b/../c.)
C5_JoinPathCanonical ==
    pc = "extracted" =>
        /\ (in_url.path = AB /\ in_body = <<H_up_c, H_ac>>) =>
              /\ Len(out_urls) = 2
              /\ out_urls[1].path = AC
              /\ out_urls[1] = out_urls[2]
        /\ in_body = <<H_xy, H_xy>> =>
              /\ Len(out_urls) = 2
              /\ out_urls[1].path = XY
              /\ out_urls[1].host = in_url.host

DeleteAt(s, i, n) == SubSeq(s, 1, i - 1) \o SubSeq(s, i + n, Len(s))

Plain(c) == c \notin {"", ".", ".."}

\* The spellings one deletion away from p: a '.' segment, a doubled or
\* trailing separator, a 'name/..' pair, or a '..' at the root taken out.
Reductions(p) ==
    LET s == p.segments
        mk(t) == [isabsolute |-> p.isabsolute,
                  segments |-> IF p.isabsolute /\ t = <<>> THEN <<"">> ELSE t]
        one == {i \in 1..Len(s) :
                   \/ s[i] = "."
                   \/ s[i] = "" /\ Len(s) > 1
                   \/ s[i] = ".." /\ i = 1 /\ p.isabsolute}
        two == {i \in 1..(Len(s) - 1) : Plain(s[i]) /\ s[i + 1] = ".."}
    IN  {q \in {mk(DeleteAt(s, i, 1)) : i \in one} \cup {mk(DeleteAt(s, i, 2)) : i \in two} :
            WellFormed(q) /\ q # p}

RECURSIVE ReductionsAll(_)
ReductionsAll(p) == {p} \cup UNION {ReductionsAll(q) : q \in Reductions(p)}

\* Two hrefs that differ only by '.'/'..' segments, duplicate separators or
\* a trailing slash: some spelling is a reduction of both.
SameButForDots(a1, a2) ==
    /\ a1.has_href /\ a1.parses
    /\ a2.has_href /\ a2.parses
    /\ a1.host = a2.host
    /\ a1.path.isabsolute = a2.path.isabsolute
    /\ ReductionsAll(a1.path) \cap ReductionsAll(a2.path) # {}

Skipped(url, a) ==
    \/ ~a.has_href
    \/ a.host \notin {NoHost, url.host}
    \/ \E i \in 1..Len(a.path.segments) : a.path.segments[i] \in AtSegs

\* C6: two hrefs on a page that differ only by '.'/'..' segments, duplicate
\* separators or a trailing slash give equal URL values (host, path, scheme)
\* with equal text, so once the first is a key of site.pages the second is
\* found there; a walk fetches the page they name once.
C6_DotVariantsAreOneURL ==
    /\ (pc = "extracted" /\ Len(in_body) = 2
          /\ SameButForDots(in_body[1], in_body[2])
          /\ ~Skipped(in_url, in_body[1])) =>
              /\ Len(out_urls) = 2
              /\ out_urls[1] = out_urls[2]
              /\ tostr(out_urls[1]) = tostr(out_urls[2])
              /\ out_urls[2] \in Keys(DictSet(<<>>, out_urls[1], NoPage))
    /\ \A k \in 1..Len(pages) :
          \A i, j \in 1..Len(pages[k].page.body) :
              SameButForDots(pages[k].page.body[i], pages[k].page.body[j]) =>
                  \A u \in Range(anchor_urls(pages[k].key, pages[k].page.body[i])) :
                      /\ anchor_urls(pages[k].key, pages[k].page.body[j]) = <<u>>
                      /\ header => Cardinality(WalkCallsOf(u)) = 1

\* C6 witness: get_urls has been applied to /a/b/../c next to /a/c, and a
\* walk of a root page linking /a and /b/../a/ has finished.
C6_Witness ==
    \/ /\ pc = "extracted"
       /\ in_body \in {<<H_abdc, H_ac>>, <<H_ab_slash, H_ab>>}
       /\ SameButForDots(in_body[1], in_body[2])
    \/ /\ header
       /\ web.rootBody = <<A_a, A_a_variant>>
       /\ SameButForDots(A_a, A_a_variant)

\* C7: get_urls yields nothing for an anchor without href, for an href
\* naming another host and for an href whose path contains '@', and one URL
\* on the page's host for every other anchor; so every key of site.pages has
\* the root URL's host.
C7_SameHostOnly ==
    /\ pc = "extracted" =>
          /\ Len(out_urls) =
                Cardinality({i \in 1..Len(in_body) : ~Skipped(in_url, in_body[i])})
          /\ \A i \in 1..Len(out_urls) : out_urls[i].host = in_url.host
    /\ \A k \in 1..Len(stack) :
          Len(stack[k].urls) =
              Cardinality({i \in 1..Len(stack[k].page.body) :
                              ~Skipped(stack[k].page.url, stack[k].page.body[i])})
    /\ \A u \in Keys(pages) : u.host = original_url.host

\* C7 witness: get_urls has been applied to a page whose anchors are all of
\* the skipped kinds, and a walk has finished on a root page that links to
\* another host.
C7_Witness ==
    \/ /\ pc = "extracted"
       /\ in_body \in {<<H_other, H_mailto>>, <<H_nohref, H_at>>}
       /\ out_urls = <<>>
    \/ /\ header
       /\ A_other \in Range(web.rootBody)
       /\ Cardinality(Keys(pages)) > 1

CompareCallsOf(url) ==
    {i \in 1..Len(calls) : calls[i].phase = "compare" /\ calls[i].url = url}

\* C8: the comparator emits one row per key of the original page map, in the
\* map's order; the row's target URL has the target root's host and the
\* original URL's path, the target page came out of the same PageCache
\* (a get_page call for that URL, whose artifact the cache now holds), and
\* the row carries the two pages' status codes.
C8_OneRowPerOriginalPage ==
    /\ Len(rows) <= Len(pages)
    /\ pc = "done" => Len(rows) = Cardinality(Keys(pages))
    /\ \A k \in 1..Len(rows) :
          LET t_url == [host |-> TargetHost, path |-> pages[k].key.path,
                        scheme |-> pages[k].key.scheme]
          IN  /\ rows[k].original = tostr(pages[k].key)
              /\ rows[k].target = tostr(t_url)
              /\ rows[k].target.host = target_url.host
              /\ rows[k].target_path = rows[k].original_path
              /\ rows[k].original_path = PathlibStr(pages[k].key.path)
              /\ rows[k].original_status_code = pages[k].page.status_code
              /\ \E i \in CompareCallsOf(t_url) :
                    /\ CompareCallsOf(t_url) = {i}
                    /\ ~calls[i].raised
                    /\ rows[k].target_status_code = calls[i].ret.status_code
              /\ ArtifactState(cache, t_url) = "valid"
              /\ rows[k].target_status_code = Loads(cache[tostr(t_url)]).status_code

\* C8 witness: a finished report of at least three rows with a 404 among
\* the target's answers.
C8_Witness ==
    /\ pc = "done"
    /\ Len(rows) >= 3
    /\ \E k \in 1..Len(rows) :
          rows[k].target_status_code = 404 /\ rows[k].original_status_code = 200

\* The end-to-end scenario: / links to /a and /b (in either order), /a links
\* to /missing, every original page answers 200, the target answers 404 for
\* /missing and 200 elsewhere, no earlier run left a page in the cache.
Scenario ==
    /\ web.rootBody \in {<<A_a, A_b>>, <<A_b, A_a>>}
    /\ web.aBody = <<A_missing>>
    /\ web.bBody = <<>>
    /\ web.env.gone = {P_missing}
    /\ web.env.ogone = {}
    /\ web.env.down = {}
    /\ \A k \in DOMAIN web.env.cache0 : ~CanLoad(web.env.cache0[k])

ReportLine(r) == <<r.original_path, r.original_status_code, r.target_status_code>>

\* C9: in the end-to-end scenario the run completes and the report has
\* exactly the four rows /, /a, /b, /missing, with 200/200 everywhere except
\* /missing, which shows original 200 and target 404.
C9_EndToEnd ==
    Scenario =>
        /\ pc # "crashed"
        /\ pc = "done" =>
              /\ Len(rows) = 4
              /\ {ReportLine(rows[k]) : k \in 1..Len(rows)} =
                    { <<<<"", "">>, 200, 200>>,
                      <<<<"", "a">>, 200, 200>>,
                      <<<<"", "b">>, 200, 200>>,
                      <<<<"", "missing">>, 200, 404>> }

\* C9 witness: the scenario's run has completed.
C9_Witness ==
    /\ Scenario
    /\ pc = "done"
    /\ Len(rows) = 4

\* C10: a transport error on the fetch of a discovered, non-root URL does
\* not abort the run: the error ends up as a page recorded for that URL and
\* the run goes on.  (The code lets the exception of httpx.get through.)
C10_FetchFailureAbsorbed ==
    \A i \in 1..Len(calls) :
        (calls[i].phase \in {"walk", "compare"}
            /\ calls[i].url # original_url
            /\ calls[i].fetched
            /\ calls[i].response = TransportError) =>
                /\ ~calls[i].raised
                /\ pc # "crashed"
                /\ calls[i].phase = "walk" => calls[i].url \in Keys(pages)

\* C11: a malformed href is skipped silently: link extraction raises no
\* error and still yields the URLs of the page's other hrefs, and a run never
\* fails because of a bad link (a run that fails, fails in a get_page call).
\* (The code lets furl's ValueError out of get_urls.)
C11_MalformedHrefSkipped ==
    /\ pc # "extract_raised"
    /\ (pc = "extracted" /\ \E i \in 1..Len(in_body) : Malformed(in_body[i])) =>
          Len(out_urls) =
              Cardinality({i \in 1..Len(in_body) :
                              ~Malformed(in_body[i]) /\ ~Skipped(in_url, in_body[i])})
    /\ pc = "crashed" => Last(calls).raised

\* A call of get_page that asked the network and got a non-2xx answer.
Non2xx(i) ==
    /\ calls[i].phase # "garbage"
    /\ calls[i].fetched
    /\ calls[i].response # TransportError
    /\ calls[i].response.status_code \notin 200..299

\* C12: a non-2xx answer (404) is a normal result: get_page returns it
\* without raising and leaves it in the cache, later calls are served from
\* the cache without a fetch, a walk inserts the page into site.pages, and
\* the status code is the one in the report row.
C12_Non2xxIsAResult ==
    /\ \A i \in 1..Len(calls) :
          Non2xx(i) =>
              /\ ~calls[i].raised
              /\ calls[i].ret = Page(calls[i].url, calls[i].response)
              /\ calls[i].post = "valid"
              /\ calls[i].stored = calls[i].ret
              /\ \A j \in 1..Len(calls) :
                    InSequence(i, j) =>
                        /\ ~calls[j].fetched
                        /\ ~calls[j].raised
                        /\ calls[j].ret = calls[i].ret
              /\ calls[i].phase = "walk" =>
                    \E k \in 1..Len(pages) :
                        /\ pages[k].key = calls[i].url
                        /\ pages[k].page = calls[i].ret
              /\ calls[i].phase = "compare" =>
                    \E k \in 1..Len(rows) :
                        /\ rows[k].target = tostr(calls[i].url)
                        /\ rows[k].target_status_code = calls[i].response.status_code
    /\ \A k \in 1..Len(rows) :
          rows[k].original_status_code = pages[k].page.status_code

\* C12 witness: a finished report with a row whose original page answered
\* 404 to this run's fetch, or a second get_page for a URL whose fetch was
\* answered 404.
C12_Witness ==
    \/ /\ pc = "done"
       /\ \E i \in 1..Len(calls) : Non2xx(i) /\ calls[i].phase = "walk"
       /\ \E k \in 1..Len(rows) : rows[k].original_status_code = 404
    \/ /\ pc = "cache"
       /\ \E i, j \in 1..Len(calls) : Non2xx(i) /\ InSequence(i, j)

\* C13: set_host returns the receiver's path and scheme with the new host,
\* join_path returns the receiver's host and scheme, for every scheme.
\* (The code builds both results with the default scheme.)
C13_DerivedKeepRest ==
    /\ pc = "rehosted" =>
          /\ out_urls[1].host = target_url.host
          /\ out_urls[1].path = in_url.path
          /\ out_urls[1].scheme = in_url.scheme
    /\ pc = "extracted" =>
          \A i \in 1..Len(out_urls) :
              /\ out_urls[i].host = in_url.host
              /\ out_urls[i].scheme = in_url.scheme

\* The root URL cannot be fetched: its request fails and the cache directory
\* holds no loadable artifact for it.
RootFetchFails ==
    /\ tostr(original_url) \in web.env.down
    /\ ArtifactState(web.env.cache0, original_url) # "valid"

\* C14: when the fetch of the root URL fails, the run ends with that error
\* in its first call: site.pages stays empty, the comparator issues no
\* request, and the report has neither header nor rows.
C14_RootFailureEndsRun ==
    RootFetchFails =>
        /\ pc \in {"start", "crashed"}
        /\ pages = <<>>
        /\ stack = <<>>
        /\ rows = <<>>
        /\ ~header
        /\ Len(calls) <= 1
        /\ pc = "crashed" =>
              /\ Len(calls) = 1
              /\ calls[1].phase = "walk"
              /\ calls[1].url = original_url
              /\ calls[1].raised

C14_Witness ==
    /\ RootFetchFails
    /\ pc = "crashed"
    /\ Len(calls) = 1
    /\ calls[1].raised
    /\ web.rootBody # <<>>

\* The loop of process_page is at a URL that is already a key.
AtKnownURL ==
    /\ pc = "walk"
    /\ stack # <<>>
    /\ Top.i <= Len(Top.urls)
    /\ InPages(Top.urls[Top.i], pages)

\* C15: walk_site terminates. Every run leaves the walk: normally (the
\* header is written) or with the exception of a fetch or of an extraction,
\* and normally whenever no fetch and no extraction raised. A step at an
\* already known URL makes no get_page call and enters no new process_page,
\* and when the walk has ended normally no frame is left.
C15_WalkTerminates ==
    /\ (pc = "start") ~> (header \/ pc = "crashed")
    /\ [](pc = "crashed" /\ ~header =>
             \/ Last(calls).raised
             \/ get_urls_raises(Last(calls).ret))
    /\ [][AtKnownURL => calls' = calls /\ pages' = pages /\ Len(stack') = Len(stack)]_vars
    /\ [](header => stack = <<>>)

\* A walk that ended normally on a site with a cycle / -> /a/ -> /.
C15_Witness ==
    /\ header
    /\ \E i \in 1..Len(web.rootBody) : web.rootBody[i] = A_a
    /\ web.aBody = <<A_root>>
    /\ \E k \in 1..Len(pages) : tostr(pages[k].key).segments = P_a

\* C16: once walk_site has returned normally, every key of site.pages has a
\* loadable artifact at the location derived from it, and the artifact
\* holds the Page the map stores under that key.
C16_WalkedPagesAreCached ==
    header =>
        \A k \in 1..Len(pages) :
            /\ ArtifactState(cache, pages[k].key) = "valid"
            /\ Loads(cache[tostr(pages[k].key)]) = pages[k].page

\* The walk has just returned on a site of three pages, one of which had a
\* corrupt artifact when the run started.
C16_Witness ==
    /\ header
    /\ rows = <<>>
    /\ Len(pages) >= 3
    /\ \E k \in 1..Len(pages) :
           ArtifactState(web.env.cache0, pages[k].key) = "corrupt"

\* C17: site.pages only grows. No step removes a key or maps a key to
\* another Page, and a step that adds a key adds exactly one, a URL that was
\* not a key before the step.
C17_PagesGrowOnly ==
    [][/\ Len(pages') >= Len(pages)
       /\ \A k \in 1..Len(pages) : pages'[k] = pages[k]
       /\ Len(pages') > Len(pages) =>
             /\ Len(pages') = Len(pages) + 1
             /\ ~InPages(pages'[Len(pages')].key, pages)
             /\ pages'[Len(pages')].page.url = pages'[Len(pages')].key]_vars

\* A finished run whose walk inserted three pages.
C17_Witness ==
    /\ pc = "done"
    /\ Len(pages) >= 3
    /\ Cardinality(Keys(pages)) = Len(pages)

\* The get_page calls of the comparator loop, in order.
CompareCalls == SelectSeq(calls, LAMBDA c : c.phase = "compare")

\* C18: the comparator does not walk the target. Its get_page calls are, in
\* the order of the original page map, one per key and for that key with the
\* target host; no process_page frame exists while it runs, so no link of a
\* target page is extracted or followed; and from the end of the walk on
\* neither the original page map nor the target's empty page map changes.
C18_NoTargetWalk ==
    /\ [](~header => CompareCalls = <<>>)
    /\ [](header =>
            /\ stack = <<>>
            /\ target_pages = <<>>
            /\ Len(CompareCalls) <= Len(pages)
            /\ \A j \in 1..Len(CompareCalls) :
                  CompareCalls[j].url = [host |-> TargetHost,
                                         path |-> pages[j].key.path,
                                         scheme |-> pages[j].key.scheme]
            /\ pc = "done" => Len(CompareCalls) = Len(pages))
    /\ [][header => /\ pages' = pages
                    /\ target_pages' = target_pages
                    /\ stack' = stack]_vars

\* A finished comparison of three pages in which a fetched target page has
\* links of its own.
C18_Witness ==
    /\ pc = "done"
    /\ Len(pages) >= 3
    /\ Len(CompareCalls) = Len(pages)
    /\ \E j \in 1..Len(CompareCalls) :
          /\ CompareCalls[j].fetched
          /\ CompareCalls[j].ret.body # <<>>

\* C19: two callers of get_page for one URL at the same time: neither
\* fails in a file operation (a request that fails is the network's doing,
\* not the cache's), whoever has returned holds a Page that was fetched for
\* that URL,
\* and when both have returned a loadable artifact is at the cache location.
\* (The code fails: with a corrupt artifact both callers reach the unlink at
\* line 87 and the second raises FileNotFoundError; an unlink or a
\* truncating open falling before another caller's lines 97-98 raises
\* there.)
C19_ConcurrentCallersTolerated ==
    pc = "callers" =>
        /\ \A w \in Callers :
              /\ workers[w].at # "failed"
              /\ workers[w].at = "returned" =>
                    workers[w].ret \in {Page(in_url, r) : r \in OKResponses}
        /\ (\A w \in Callers : workers[w].at = "returned") =>
              ArtifactState(cache, in_url) = "valid"

====
